---- MODULE Spec2Model ----
(***************************************************************************)
(* A model of services/searchengine/bleveengine/bleve.go: the BleveEngine  *)
(* adapter, its index lifecycle (Start, Stop, UpdateConfig), its index,    *)
(* delete and search operations, and the query trees the searches build.   *)
(*                                                                         *)
(* The bleve library is an external collaborator.  An index handle is a    *)
(* natural number (NilIndex is the nil interface value), `open` is the set *)
(* of handles that are open, `disk` the set of index names that exist      *)
(* under the index directory.  Whether a library call succeeds is a        *)
(* nondeterministic choice of the action that makes the call.              *)
(***************************************************************************)
EXTENDS Integers, Sequences, FiniteSets, TLC

VARIABLES
    cfg,            \* b.cfg: the BleveSettings the engine reads
    postIndex,      \* b.postIndex
    userIndex,      \* b.userIndex
    channelIndex,   \* b.channelIndex
    open,           \* handles the library holds open
    nextHandle,     \* the next handle the library hands out
    disk,           \* index names present under IndexDir
    req,            \* the arguments of the call being served
    lastOp          \* the last call: name, result, library calls made, lists returned

vars == <<cfg, postIndex, userIndex, channelIndex, open, nextHandle, disk, req, lastOp>>

engineVars == <<postIndex, userIndex, channelIndex, open, nextHandle, disk>>

(***************************************************************************)
(* Bounds of the model.                                                    *)
(***************************************************************************)
\* handles the library may hand out in one behaviour
MaxHandles == 6
\* longest SearchParams list
MaxParams == 2
\* most filter fields that are non-empty in one SearchParams list
MaxFilters == 2
\* longest restrictedToChannels list
MaxRestricted == 2

(***************************************************************************)
(* Values.                                                                 *)
(***************************************************************************)
\* the nil bleve.Index
NilIndex == 0
\* a nil *float64 bound of a numeric range
NilBound == -1
\* the empty date string
NoDate == 0

IndexNames == {"posts", "users", "channels"}

Cfgs == [EnableIndexing : BOOLEAN, IndexDir : {"", "data"}]

BoundedSeq(S, n) == UNION {[1..k -> S] : k \in 0..n}

\* A Go slice: nil, or a (possibly empty) list
NilList == [isNil |-> TRUE, ids |-> <<>>]
List(ids) == [isNil |-> FALSE, ids |-> ids]
LenOf(l) == Len(l.ids)

(***************************************************************************)
(* Query trees (bleve/search/query).  Every node has the same fields so    *)
(* that any two trees compare.                                             *)
(***************************************************************************)
Node(kind, val, min, max, subs) ==
    [kind |-> kind, field |-> "", val |-> val, min |-> min, max |-> max,
     subs |-> subs, nots |-> <<>>]

NoQuery == Node("none", "", NilBound, NilBound, <<>>)
NewTermQuery(term) == Node("term", term, NilBound, NilBound, <<>>)
NewMatchQuery(match) == Node("match", match, NilBound, NilBound, <<>>)
NewPrefixQuery(prefix) == Node("prefix", prefix, NilBound, NilBound, <<>>)
NewNumericRangeQuery(min, max) == Node("range", "", min, max, <<>>)
NewDisjunctionQuery(qs) == Node("disjunction", "", NilBound, NilBound, qs)
NewConjunctionQuery(qs) == Node("conjunction", "", NilBound, NilBound, qs)
NewMatchAllQuery == Node("matchall", "", NilBound, NilBound, <<>>)
NewBooleanQuery == Node("boolean", "", NilBound, NilBound, <<>>)
SetField(q, f) == [q EXCEPT !.field = f]
AddMust(q, qs) == [q EXCEPT !.subs = @ \o qs]
AddMustNot(q, qs) == [q EXCEPT !.nots = @ \o qs]

\* strings.ToLower on the terms of the model
ToLower(s) == IF s \in {"Eng", "ENG"} THEN "eng" ELSE s

(***************************************************************************)
(* model.SearchParams date helpers.                                        *)
(* A date is a day number; its milliseconds are those of the whole day.    *)
(***************************************************************************)
GetStartOfDayMillis(d) == d * 86400000
GetEndOfDayMillis(d) == d * 86400000 + 86399999
GetOnDateMillis(d) == <<GetStartOfDayMillis(d), GetEndOfDayMillis(d)>>
GetAfterDateMillis(d) == GetStartOfDayMillis(d + 1)
GetBeforeDateMillis(d) == GetEndOfDayMillis(d - 1)

(***************************************************************************)
(* SearchPosts: the query.                                                 *)
(***************************************************************************)
\* one term query per id, on the given field
TermQueriesOn(field, ids) ==
    [i \in 1..Len(ids) |-> SetField(NewTermQuery(ids[i]), field)]

\* a faulty variant: the loop stops one channel short
ChannelDisjunctionQDropLast(channels) ==
    NewDisjunctionQuery(
        TermQueriesOn("ChannelId", SubSeq(channels, 1, Len(channels) - 1)))

ChannelDisjunctionQ(channels) ==
    NewDisjunctionQuery(TermQueriesOn("ChannelId", channels))

\* the range of OnDate: [start of day, end of day]
OnDateQ(d) ==
    SetField(NewNumericRangeQuery(GetOnDateMillis(d)[1], GetOnDateMillis(d)[2]),
             "CreateAt")

DateFilters(params) ==
    IF params.OnDate # NoDate
    THEN <<OnDateQ(params.OnDate)>>
    ELSE IF params.AfterDate # NoDate \/ params.BeforeDate # NoDate
         THEN <<SetField(NewNumericRangeQuery(
                    IF params.AfterDate # NoDate
                    THEN GetAfterDateMillis(params.AfterDate) ELSE NilBound,
                    IF params.BeforeDate # NoDate
                    THEN GetBeforeDateMillis(params.BeforeDate) ELSE NilBound),
                "CreateAt")>>
         ELSE <<>>

ExcludedDateFilters(params) ==
    (IF params.ExcludedAfterDate # NoDate
     THEN <<SetField(NewNumericRangeQuery(
                GetAfterDateMillis(params.ExcludedAfterDate), NilBound), "CreateAt")>>
     ELSE <<>>)
    \o (IF params.ExcludedBeforeDate # NoDate
        THEN <<SetField(NewNumericRangeQuery(
                   NilBound, GetBeforeDateMillis(params.ExcludedBeforeDate)), "CreateAt")>>
        ELSE <<>>)
    \o (IF params.ExcludedDate # NoDate
        THEN <<OnDateQ(params.ExcludedDate)>>
        ELSE <<>>)

\* a faulty variant: the excluded dates are read even when OnDate is set
DateNotFiltersNoElse(params) == ExcludedDateFilters(params)

DateNotFilters(params) ==
    IF params.OnDate # NoDate THEN <<>> ELSE ExcludedDateFilters(params)

\* the MUST filters of one SearchParams element, in the order the code appends them
GlobalFilters(params) ==
    (IF Len(params.InChannels) > 0
     THEN <<NewDisjunctionQuery(TermQueriesOn("ChannelId", params.InChannels))>>
     ELSE <<>>)
    \o (IF Len(params.FromUsers) > 0
        THEN <<NewDisjunctionQuery(TermQueriesOn("UserId", params.FromUsers))>>
        ELSE <<>>)
    \o DateFilters(params)

\* the MUST-NOT filters of one SearchParams element
GlobalNotFilters(params) ==
    (IF Len(params.ExcludedChannels) > 0
     THEN <<NewDisjunctionQuery(TermQueriesOn("ChannelId", params.ExcludedChannels))>>
     ELSE <<>>)
    \o (IF Len(params.ExcludedUsers) > 0
        THEN <<NewDisjunctionQuery(TermQueriesOn("UserId", params.ExcludedUsers))>>
        ELSE <<>>)
    \o DateNotFilters(params)

\* a faulty variant: the filters of every element are read
ReadsFiltersEveryElement(i) == TRUE

\* `if i == 0`: the element whose filters are read (elements count from 1 here)
ReadsFilters(i) == i = 1

RECURSIVE Filters(_, _)
Filters(searchParams, i) ==
    IF i > Len(searchParams) THEN <<>>
    ELSE (IF ReadsFilters(i) THEN GlobalFilters(searchParams[i]) ELSE <<>>)
         \o Filters(searchParams, i + 1)

RECURSIVE NotFilters(_, _)
NotFilters(searchParams, i) ==
    IF i > Len(searchParams) THEN <<>>
    ELSE (IF ReadsFilters(i) THEN GlobalNotFilters(searchParams[i]) ELSE <<>>)
         \o NotFilters(searchParams, i + 1)

TermQueries(searchParams) ==
    [i \in 1..Len(searchParams) |->
        SetField(NewMatchQuery(searchParams[i].Terms), "Message")]

\* a faulty variant: the last element's OrTerms decides
OrTermsOfLast(searchParams) == searchParams[Len(searchParams)].OrTerms

\* `searchParams[0].OrTerms`
OrTermsOf(searchParams) == searchParams[1].OrTerms

AllTermsQ(searchParams) ==
    IF OrTermsOf(searchParams)
    THEN NewDisjunctionQuery(TermQueries(searchParams))
    ELSE NewConjunctionQuery(TermQueries(searchParams))

PostsQuery(channels, searchParams) ==
    LET filters == Filters(searchParams, 1)
        notFilters == NotFilters(searchParams, 1)
        q0 == AddMust(NewBooleanQuery,
                      <<ChannelDisjunctionQ(channels), AllTermsQ(searchParams)>>)
        q1 == IF Len(filters) > 0
              THEN AddMust(q0, <<NewConjunctionQuery(filters)>>) ELSE q0
    IN  IF Len(notFilters) > 0 THEN AddMustNot(q1, notFilters) ELSE q1

(***************************************************************************)
(* User and channel searches: the queries.                                 *)
(***************************************************************************)
\* the prefix query on the suggestion field the options select
TermQ(term, allowFullNames) ==
    SetField(NewPrefixQuery(ToLower(term)),
             IF allowFullNames THEN "SuggestionsWithFullname"
             ELSE "SuggestionsWithoutFullname")

\* a faulty variant: no early return
NoRestrictionShortCut(restrictedToChannels) == FALSE

\* restrictedToChannels != nil && len(restrictedToChannels) == 0
IsEmptyRestriction(restrictedToChannels) ==
    ~restrictedToChannels.isNil /\ LenOf(restrictedToChannels) = 0

ChannelsQuery(teamId, term) ==
    NewConjunctionQuery(
        <<SetField(NewTermQuery(teamId), "TeamId")>>
        \o (IF term # ""
            THEN <<SetField(NewPrefixQuery(ToLower(term)), "NameSuggest")>>
            ELSE <<>>))

\* the query for the users in the channel
UchanQuery(channelId, term, allowFullNames) ==
    NewConjunctionQuery(
        (IF term # "" THEN <<TermQ(term, allowFullNames)>> ELSE <<>>)
        \o <<SetField(NewTermQuery(channelId), "ChannelsIds")>>)

\* SearchUsersInChannel's restriction clause: the term queries get no field
RestrictedChannelsQInChannel(ids) ==
    NewDisjunctionQuery([i \in 1..Len(ids) |-> NewTermQuery(ids[i])])

\* the query for the users not in the channel
NuchanQuery(teamId, channelId, restrictedToChannels, term, allowFullNames) ==
    LET b0 == NewBooleanQuery
        b1 == IF term # "" THEN AddMust(b0, <<TermQ(term, allowFullNames)>>) ELSE b0
        b2 == AddMust(b1, <<SetField(NewTermQuery(teamId), "TeamsIds")>>)
        b3 == AddMustNot(b2, <<SetField(NewTermQuery(channelId), "ChannelsIds")>>)
    IN  IF LenOf(restrictedToChannels) > 0
        THEN AddMust(b3, <<RestrictedChannelsQInChannel(restrictedToChannels.ids)>>)
        ELSE b3

\* SearchUsersInTeam's restriction clause
RestrictedChannelsQInTeam(ids) ==
    NewDisjunctionQuery(TermQueriesOn("ChannelsIds", ids))

TeamQuery(teamId, restrictedToChannels, term, allowFullNames) ==
    IF term = "" /\ teamId = "" /\ restrictedToChannels.isNil
    THEN NewMatchAllQuery
    ELSE LET b0 == NewBooleanQuery
             b1 == IF term # "" THEN AddMust(b0, <<TermQ(term, allowFullNames)>>) ELSE b0
         IN  IF LenOf(restrictedToChannels) > 0
             THEN AddMust(b1, <<RestrictedChannelsQInTeam(restrictedToChannels.ids)>>)
             ELSE IF teamId # ""
                  THEN AddMust(b1, <<SetField(NewTermQuery(teamId), "TeamsIds")>>)
                  ELSE b1

(***************************************************************************)
(* The library seen from the engine.                                       *)
(***************************************************************************)
IsActiveCfg(c) == c.EnableIndexing /\ c.IndexDir # ""

\* the engine's fields and the library's state, as one record
Engine == [postIndex |-> postIndex, userIndex |-> userIndex,
           channelIndex |-> channelIndex, open |-> open,
           nextHandle |-> nextHandle, disk |-> disk]

HandleState(opn, h) ==
    IF h = NilIndex THEN "nil" ELSE IF h \in opn THEN "open" ELSE "closed"

\* one call the engine makes on the library
Call(op, index, h, st, ok, q) ==
    [op |-> op, index |-> index, h |-> h, st |-> st, ok |-> ok, q |-> q]

\* a method call on a handle: a nil handle panics, a closed one fails
Outcome(st, libOk) ==
    IF st = "nil" THEN "panic"
    ELSE IF st = "closed" THEN "err"
    ELSE IF libOk THEN "ok" ELSE "err"

Op(name, ret, calls, steps, out) ==
    [name |-> name, ret |-> ret, calls |-> calls, steps |-> steps, out |-> out]

NoOp == Op("none", "ok", <<>>, <<>>, <<>>)

Req(op, channels, searchParams, teamId, channelId, restricted, term, allowFullNames) ==
    [op |-> op, channels |-> channels, searchParams |-> searchParams,
     teamId |-> teamId, channelId |-> channelId, restricted |-> restricted,
     term |-> term, allowFullNames |-> allowFullNames]

NoReq(op) == Req(op, <<>>, <<>>, "", "", NilList, "", FALSE)

(***************************************************************************)
(* createOrOpenIndex: bleve.Open, and bleve.New when Open fails.  Open can *)
(* succeed only on an index that exists, New only on one that does not.    *)
(***************************************************************************)
createOrOpenIndex(e, indexName, libOk) ==
    IF indexName \in e.disk /\ libOk
    THEN [index |-> e.nextHandle, err |-> FALSE, disk |-> e.disk,
          calls |-> <<Call("Open", indexName, e.nextHandle, "path", TRUE, NoQuery)>>]
    ELSE IF indexName \notin e.disk /\ libOk
    THEN [index |-> e.nextHandle, err |-> FALSE, disk |-> e.disk \cup {indexName},
          calls |-> <<Call("Open", indexName, NilIndex, "path", FALSE, NoQuery),
                      Call("New", indexName, e.nextHandle, "path", TRUE, NoQuery)>>]
    ELSE [index |-> NilIndex, err |-> TRUE, disk |-> e.disk,
          calls |-> <<Call("Open", indexName, NilIndex, "path", FALSE, NoQuery),
                      Call("New", indexName, NilIndex, "path", FALSE, NoQuery)>>]

\* the library's state after createOrOpenIndex returned r
Opened(e, r) ==
    [e EXCEPT !.disk = r.disk,
              !.open = IF r.err THEN @ ELSE @ \cup {r.index},
              !.nextHandle = IF r.err THEN @ ELSE @ + 1]

\* Start goes on past its first test
StartsIndexes(c) == c.EnableIndexing /\ c.IndexDir # ""

\* Start on engine e under configuration c; libOk[i] is the library's answer
\* for the i-th index.  Each field is assigned what createOrOpenIndex returned,
\* nil on an error.
StartOn(c, e, libOk) ==
    IF ~StartsIndexes(c)
    THEN [e |-> e, ret |-> "ok", calls |-> <<>>]
    ELSE
      LET r1 == createOrOpenIndex(e, "posts", libOk[1])
          e1 == [Opened(e, r1) EXCEPT !.postIndex = r1.index]
          r2 == createOrOpenIndex(e1, "users", libOk[2])
          e2 == [Opened(e1, r2) EXCEPT !.userIndex = r2.index]
          r3 == createOrOpenIndex(e2, "channels", libOk[3])
          e3 == [Opened(e2, r3) EXCEPT !.channelIndex = r3.index]
      IN  IF r1.err THEN [e |-> e1, ret |-> "err", calls |-> r1.calls]
          ELSE IF r2.err THEN [e |-> e2, ret |-> "err", calls |-> r1.calls \o r2.calls]
          ELSE IF r3.err
               THEN [e |-> e3, ret |-> "err", calls |-> r1.calls \o r2.calls \o r3.calls]
               ELSE [e |-> e3, ret |-> "ok", calls |-> r1.calls \o r2.calls \o r3.calls]

\* index.Close() on handle h: a close that succeeds closes the handle
CloseOn(e, indexName, h, libOk) ==
    LET st == HandleState(e.open, h)
        ret == IF st = "nil" THEN "panic" ELSE IF libOk THEN "ok" ELSE "err"
    IN  [e |-> IF ret = "ok" THEN [e EXCEPT !.open = @ \ {h}] ELSE e,
         ret |-> ret,
         calls |-> <<Call("Close", indexName, h, st, ret = "ok", NoQuery)>>]

\* Stop on engine e under configuration c: the closes stop at the first
\* one that does not succeed
StopOn(c, e, libOk) ==
    IF ~IsActiveCfg(c)
    THEN [e |-> e, ret |-> "ok", calls |-> <<>>]
    ELSE
      LET r1 == CloseOn(e, "posts", e.postIndex, libOk[1])
          r2 == CloseOn(r1.e, "users", e.userIndex, libOk[2])
          r3 == CloseOn(r2.e, "channels", e.channelIndex, libOk[3])
      IN  IF r1.ret # "ok" THEN [e |-> r1.e, ret |-> r1.ret, calls |-> r1.calls]
          ELSE IF r2.ret # "ok"
               THEN [e |-> r2.e, ret |-> r2.ret, calls |-> r1.calls \o r2.calls]
               ELSE [e |-> r3.e, ret |-> r3.ret,
                     calls |-> r1.calls \o r2.calls \o r3.calls]

SetEngine(e) ==
    /\ postIndex' = e.postIndex
    /\ userIndex' = e.userIndex
    /\ channelIndex' = e.channelIndex
    /\ open' = e.open
    /\ nextHandle' = e.nextHandle
    /\ disk' = e.disk

\* the library's answers to three calls in a row; when no call is made there
\* is nothing to choose
LibAnswers(called) == IF called THEN [1..3 -> BOOLEAN] ELSE {[i \in 1..3 |-> TRUE]}

\* the library's answer to one call on handle h: only an open handle can succeed
LibAnswer(h) == IF h \in open THEN BOOLEAN ELSE {FALSE}

\* handles are left for a whole Start
HandlesLeft == nextHandle + 2 <= MaxHandles

(***************************************************************************)
(* Lifecycle operations.                                                   *)
(***************************************************************************)
Start ==
    /\ IsActiveCfg(cfg) => HandlesLeft
    /\ \E libOk \in LibAnswers(StartsIndexes(cfg)) :
         LET r == StartOn(cfg, Engine, libOk)
         IN  /\ SetEngine(r.e)
             /\ lastOp' = Op("Start", r.ret, r.calls, <<>>, <<>>)
    /\ req' = NoReq("Start")
    /\ UNCHANGED cfg

Stop ==
    /\ \E libOk \in LibAnswers(IsActiveCfg(cfg)) :
         LET r == StopOn(cfg, Engine, libOk)
         IN  /\ SetEngine(r.e)
             /\ lastOp' = Op("Stop", r.ret, r.calls, <<>>, <<>>)
    /\ req' = NoReq("Stop")
    /\ UNCHANGED cfg

\* a faulty variant: the test of the current configuration is missing
RestartsWheneverNewActive(cur, new) == IsActiveCfg(new)

\* UpdateConfig's test: !b.IsActive() and the new configuration is active
Restarts(cur, new) ==
    ~IsActiveCfg(cur) /\ new.EnableIndexing /\ new.IndexDir # ""

UpdateConfig(newCfg) ==
    /\ Restarts(cfg, newCfg) => HandlesLeft
    /\ \E stopOk \in LibAnswers(Restarts(cfg, newCfg) /\ IsActiveCfg(cfg)),
          startOk \in LibAnswers(Restarts(cfg, newCfg)) :
         IF Restarts(cfg, newCfg)
         THEN LET s == StopOn(cfg, Engine, stopOk)
              IN  IF s.ret = "panic"
                  THEN /\ SetEngine(s.e)
                       /\ cfg' = cfg
                       /\ lastOp' = Op("UpdateConfig", "panic", s.calls, <<"Stop">>, <<>>)
                  ELSE LET r == StartOn(newCfg, s.e, startOk)
                       IN  /\ SetEngine(r.e)
                           /\ cfg' = newCfg
                           /\ lastOp' = Op("UpdateConfig", "ok", s.calls \o r.calls,
                                            <<"Stop", "SetCfg", "Start">>, <<>>)
         ELSE /\ cfg' = newCfg
              /\ lastOp' = Op("UpdateConfig", "ok", <<>>, <<"SetCfg">>, <<>>)
              /\ UNCHANGED engineVars
    /\ req' = NoReq("UpdateConfig")

(***************************************************************************)
(* Index, delete and search operations.  None of them tests IsActive or    *)
(* the handle before it calls the library.                                 *)
(***************************************************************************)
\* an Index or Delete call on handle h of the named index
Mutation(name, op, indexName, h, libOk) ==
    LET st == HandleState(open, h)
        ret == Outcome(st, libOk)
    IN  /\ lastOp' = Op(name, ret, <<Call(op, indexName, h, st, ret = "ok", NoQuery)>>,
                        <<>>, <<>>)
        /\ req' = NoReq(name)
        /\ UNCHANGED <<cfg, engineVars>>

IndexPost == \E libOk \in LibAnswer(postIndex) : Mutation("IndexPost", "Index", "posts", postIndex, libOk)

DeletePost == \E libOk \in LibAnswer(postIndex) : Mutation("DeletePost", "Delete", "posts", postIndex, libOk)

IndexChannel ==
    \E libOk \in LibAnswer(channelIndex) : Mutation("IndexChannel", "Index", "channels", channelIndex, libOk)

DeleteChannel ==
    \E libOk \in LibAnswer(channelIndex) : Mutation("DeleteChannel", "Delete", "channels", channelIndex, libOk)

IndexUser == \E libOk \in LibAnswer(userIndex) : Mutation("IndexUser", "Index", "users", userIndex, libOk)

DeleteUser == \E libOk \in LibAnswer(userIndex) : Mutation("DeleteUser", "Delete", "users", userIndex, libOk)

\* what a search of the library answers: success or not, and the hits' ids
HitLists == {<<>>, <<"id1", "id2">>}
Answers(h, hitLists) ==
    IF h \in open THEN [ok : BOOLEAN, hits : hitLists]
    ELSE {[ok |-> FALSE, hits |-> <<>>]}

\* a Search call on handle h, and the list the operation makes of its hits
SearchOn(indexName, h, q, a) ==
    LET st == HandleState(open, h)
        ret == Outcome(st, a.ok)
    IN  [ret |-> ret,
         calls |-> <<Call("Search", indexName, h, st, ret = "ok", q)>>,
         ids |-> IF ret = "ok" THEN List(a.hits) ELSE NilList]

SearchPosts(r, a) ==
    LET s == SearchOn("posts", postIndex, PostsQuery(r.channels, r.searchParams), a)
    IN  /\ lastOp' = Op("SearchPosts", s.ret, s.calls, <<>>,
                        IF s.ret = "panic" THEN <<>> ELSE <<s.ids>>)
        /\ UNCHANGED <<cfg, engineVars>>

SearchChannels(r, a) ==
    LET s == SearchOn("channels", channelIndex, ChannelsQuery(r.teamId, r.term), a)
    IN  /\ lastOp' = Op("SearchChannels", s.ret, s.calls, <<>>,
                        IF s.ret = "panic" THEN <<>> ELSE <<s.ids>>)
        /\ UNCHANGED <<cfg, engineVars>>

SearchUsersInChannel(r, a1, a2) ==
    /\ IF IsEmptyRestriction(r.restricted)
       THEN lastOp' = Op("SearchUsersInChannel", "ok", <<>>, <<>>, <<List(<<>>), List(<<>>)>>)
       ELSE LET s1 == SearchOn("users", userIndex,
                               UchanQuery(r.channelId, r.term, r.allowFullNames), a1)
                s2 == SearchOn("users", userIndex,
                               NuchanQuery(r.teamId, r.channelId, r.restricted, r.term,
                                           r.allowFullNames), a2)
            IN  IF s1.ret # "ok"
                THEN lastOp' = Op("SearchUsersInChannel", s1.ret, s1.calls, <<>>,
                                  IF s1.ret = "panic" THEN <<>> ELSE <<NilList, NilList>>)
                ELSE IF s2.ret # "ok"
                THEN lastOp' = Op("SearchUsersInChannel", s2.ret, s1.calls \o s2.calls, <<>>,
                                  IF s2.ret = "panic" THEN <<>> ELSE <<NilList, NilList>>)
                ELSE lastOp' = Op("SearchUsersInChannel", "ok", s1.calls \o s2.calls, <<>>,
                                  <<s1.ids, s2.ids>>)
    /\ UNCHANGED <<cfg, engineVars>>

SearchUsersInTeam(r, a) ==
    /\ IF IsEmptyRestriction(r.restricted)
       THEN lastOp' = Op("SearchUsersInTeam", "ok", <<>>, <<>>, <<List(<<>>)>>)
       ELSE LET s == SearchOn("users", userIndex,
                              TeamQuery(r.teamId, r.restricted, r.term, r.allowFullNames), a)
            IN  lastOp' = Op("SearchUsersInTeam", s.ret, s.calls, <<>>,
                             IF s.ret = "panic" THEN <<>> ELSE <<s.ids>>)
    /\ UNCHANGED <<cfg, engineVars>>

(***************************************************************************)
(* The arguments the searches are called with.                             *)
(***************************************************************************)
FilterFields == {"InChannels", "ExcludedChannels", "FromUsers", "ExcludedUsers",
                 "OnDate", "AfterDate", "BeforeDate",
                 "ExcludedAfterDate", "ExcludedBeforeDate", "ExcludedDate"}

\* the value a filter field has when it is not empty
Sample == [InChannels |-> <<"c1", "c3">>, ExcludedChannels |-> <<"c2">>,
           FromUsers |-> <<"u1", "u2">>, ExcludedUsers |-> <<"u3">>,
           OnDate |-> 5, AfterDate |-> 2, BeforeDate |-> 9,
           ExcludedAfterDate |-> 7, ExcludedBeforeDate |-> 3, ExcludedDate |-> 6]

\* the terms of the i-th element
TermsAt == <<"deploy", "rollback", "release", "hotfix">>

\* the SearchParams element i of a list whose non-empty filter fields are `set`
Params(i, set, orTerms) ==
    LET list(f) == IF <<i, f>> \in set THEN Sample[f] ELSE <<>>
        date(f) == IF <<i, f>> \in set THEN Sample[f] ELSE NoDate
    IN  [Terms |-> TermsAt[i], OrTerms |-> orTerms,
         InChannels |-> list("InChannels"), ExcludedChannels |-> list("ExcludedChannels"),
         FromUsers |-> list("FromUsers"), ExcludedUsers |-> list("ExcludedUsers"),
         OnDate |-> date("OnDate"), AfterDate |-> date("AfterDate"),
         BeforeDate |-> date("BeforeDate"),
         ExcludedAfterDate |-> date("ExcludedAfterDate"),
         ExcludedBeforeDate |-> date("ExcludedBeforeDate"),
         ExcludedDate |-> date("ExcludedDate")]

RECURSIVE SubsetsUpTo(_, _)
SubsetsUpTo(S, k) ==
    IF k = 0 THEN {{}}
    ELSE LET smaller == SubsetsUpTo(S, k - 1)
         IN  smaller \cup {T \cup {x} : T \in smaller, x \in S}

ChannelLists == {<<"c1">>, <<"c1", "c2">>}

RestrictedLists(maxLen) ==
    {NilList} \cup {List(ids) : ids \in BoundedSeq({"c1", "c2"}, maxLen)}

Terms == {"", "Eng"}
TeamIds == {"", "team1"}

ChannelRequests ==
    {Req("SearchChannels", <<>>, <<>>, t, "", NilList, term, FALSE) :
        t \in TeamIds, term \in Terms}

UsersInChannelRequests(maxLen) ==
    {Req("SearchUsersInChannel", <<>>, <<>>, t, "c1", rs, term, full) :
        t \in TeamIds, rs \in RestrictedLists(maxLen), term \in Terms, full \in BOOLEAN}

UsersInTeamRequests(maxLen) ==
    {Req("SearchUsersInTeam", <<>>, <<>>, t, "", rs, term, full) :
        t \in TeamIds, rs \in RestrictedLists(maxLen), term \in Terms, full \in BOOLEAN}

(***************************************************************************)
(* Spec: the engine from construction on, under any sequence of calls.     *)
(* The searches are called with one-element lists here.                    *)
(***************************************************************************)
Init ==
    /\ cfg \in Cfgs
    /\ postIndex = NilIndex
    /\ userIndex = NilIndex
    /\ channelIndex = NilIndex
    /\ open = {}
    /\ nextHandle = 1
    /\ disk \in {{}, IndexNames}
    /\ req = NoReq("NewBleveEngine")
    /\ lastOp = Op("NewBleveEngine", "ok", <<>>, <<>>, <<>>)

CallUpdateConfig == \E newCfg \in Cfgs : UpdateConfig(newCfg)

\* the hits of the searches of Spec
SomeHits == {<<"id1", "id2">>}

CallSearchPosts ==
    \E r \in {Req("SearchPosts", <<"c1">>, <<Params(1, {}, FALSE)>>, "", "", NilList, "", FALSE)},
       a \in Answers(postIndex, SomeHits) :
        req' = r /\ SearchPosts(r, a)

CallSearchChannels ==
    \E r \in {Req("SearchChannels", <<>>, <<>>, "team1", "", NilList, "Eng", FALSE)},
       a \in Answers(channelIndex, SomeHits) :
        req' = r /\ SearchChannels(r, a)

CallSearchUsersInChannel ==
    \E r \in {Req("SearchUsersInChannel", <<>>, <<>>, "team1", "c1", rs, "Eng", FALSE) :
                  rs \in RestrictedLists(0)},
       a1 \in Answers(userIndex, SomeHits), a2 \in Answers(userIndex, SomeHits) :
        req' = r /\ SearchUsersInChannel(r, a1, a2)

CallSearchUsersInTeam ==
    \E r \in {Req("SearchUsersInTeam", <<>>, <<>>, "team1", "", rs, "Eng", FALSE) :
                  rs \in RestrictedLists(0)},
       a \in Answers(userIndex, SomeHits) :
        req' = r /\ SearchUsersInTeam(r, a)

Next ==
    \/ Start
    \/ Stop
    \/ CallUpdateConfig
    \/ IndexPost
    \/ DeletePost
    \/ IndexChannel
    \/ DeleteChannel
    \/ IndexUser
    \/ DeleteUser
    \/ CallSearchPosts
    \/ CallSearchChannels
    \/ CallSearchUsersInChannel
    \/ CallSearchUsersInTeam

Spec == Init /\ [][Next]_vars

(***************************************************************************)
(* SpecQuery: one search, with arguments drawn from the bounded sets, on   *)
(* an engine that was built with an active configuration and started.      *)
(***************************************************************************)
InitQuery ==
    /\ cfg = [EnableIndexing |-> TRUE, IndexDir |-> "data"]
    /\ postIndex = 1
    /\ userIndex = 2
    /\ channelIndex = 3
    /\ open = {1, 2, 3}
    /\ nextHandle = 4
    /\ disk = IndexNames
    /\ \/ \E ch \in ChannelLists, n \in 1..MaxParams :
             \E set \in SubsetsUpTo((1..n) \X FilterFields, MaxFilters),
                ors \in [1..n -> BOOLEAN] :
                 req = Req("SearchPosts", ch, [i \in 1..n |-> Params(i, set, ors[i])],
                           "", "", NilList, "", FALSE)
       \/ req \in ChannelRequests
       \/ req \in UsersInChannelRequests(MaxRestricted)
       \/ req \in UsersInTeamRequests(MaxRestricted)
    /\ lastOp = NoOp

ServeSearchPosts ==
    /\ lastOp = NoOp /\ req.op = "SearchPosts"
    /\ \E a \in Answers(postIndex, HitLists) : SearchPosts(req, a)
    /\ UNCHANGED req

ServeSearchChannels ==
    /\ lastOp = NoOp /\ req.op = "SearchChannels"
    /\ \E a \in Answers(channelIndex, HitLists) : SearchChannels(req, a)
    /\ UNCHANGED req

ServeSearchUsersInChannel ==
    /\ lastOp = NoOp /\ req.op = "SearchUsersInChannel"
    /\ \E a1 \in Answers(userIndex, HitLists), a2 \in Answers(userIndex, HitLists) :
         SearchUsersInChannel(req, a1, a2)
    /\ UNCHANGED req

ServeSearchUsersInTeam ==
    /\ lastOp = NoOp /\ req.op = "SearchUsersInTeam"
    /\ \E a \in Answers(userIndex, HitLists) : SearchUsersInTeam(req, a)
    /\ UNCHANGED req

NextQuery ==
    \/ ServeSearchPosts
    \/ ServeSearchChannels
    \/ ServeSearchUsersInChannel
    \/ ServeSearchUsersInTeam

SpecQuery == InitQuery /\ [][NextQuery]_vars

(***************************************************************************)
(* Properties.                                                             *)
(***************************************************************************)
\* the query of the k-th library call of the last operation
QueryOf(k) == lastOp.calls[k].q

SearchedPosts == lastOp.name = "SearchPosts"

TermNode(field, val) ==
    [kind |-> "term", field |-> field, val |-> val, min |-> NilBound, max |-> NilBound,
     subs |-> <<>>, nots |-> <<>>]

\* d is a disjunction of ChannelId term queries, one for each channel of C and no other
CoversExactly(d, C) ==
    /\ d.kind = "disjunction"
    /\ Len(d.subs) = Cardinality(C)
    /\ \A j \in 1..Len(d.subs) :
         d.subs[j].kind = "term" /\ d.subs[j].field = "ChannelId"
    /\ {d.subs[j].val : j \in 1..Len(d.subs)} = C

\* C1: whatever the SearchParams list carries, the boolean query SearchPosts hands
\* to the post index has a MUST clause that is a disjunction of ChannelId term
\* queries, one for each visible channel and for no other channel.
C1_ChannelVisibilityCoversExactlyC ==
    SearchedPosts /\ Len(req.channels) > 0 =>
        /\ QueryOf(1).kind = "boolean"
        /\ \E i \in 1..Len(QueryOf(1).subs) :
             CoversExactly(QueryOf(1).subs[i],
                           {req.channels[j] : j \in 1..Len(req.channels)})

C1_Witness ==
    /\ SearchedPosts /\ lastOp.ret = "ok"
    /\ req.channels = <<"c1", "c2">>
    /\ Len(req.searchParams) = 2
    /\ req.searchParams[1].InChannels # <<>>
    /\ req.searchParams[2].ExcludedChannels # <<>>

\* the list with the filter fields of every element after the first set to v
WithTail(searchParams, v) ==
    [i \in 1..Len(searchParams) |->
        IF i = 1 THEN searchParams[1]
        ELSE [f \in DOMAIN searchParams[i] |->
                 IF f \in FilterFields THEN v[f] ELSE searchParams[i][f]]]

NoFilters == [f \in FilterFields |->
                 IF f \in {"InChannels", "ExcludedChannels", "FromUsers", "ExcludedUsers"}
                 THEN <<>> ELSE NoDate]

\* C2: the query SearchPosts builds is the query it builds for any list with the
\* same first element and the same Terms and OrTerms in every element: the one
\* whose later elements carry no filter at all, and the one whose later elements
\* carry every filter.  The filter clauses are those of the first element.
C2_FiltersOnlyFromFirst ==
    SearchedPosts =>
        /\ QueryOf(1) = PostsQuery(req.channels, WithTail(req.searchParams, NoFilters))
        /\ QueryOf(1) = PostsQuery(req.channels, WithTail(req.searchParams, Sample))
        /\ QueryOf(1).nots = GlobalNotFilters(req.searchParams[1])
        /\ \A i \in 3..Len(QueryOf(1).subs) :
             QueryOf(1).subs[i] = NewConjunctionQuery(GlobalFilters(req.searchParams[1]))

C2_Witness ==
    /\ SearchedPosts /\ lastOp.ret = "ok"
    /\ Len(req.searchParams) = 2
    /\ req.searchParams[1].FromUsers # <<>>
    /\ req.searchParams[2].ExcludedUsers # <<>>
    /\ req.searchParams[2] # WithTail(req.searchParams, NoFilters)[2]

MatchNode(terms) ==
    [kind |-> "match", field |-> "Message", val |-> terms, min |-> NilBound,
     max |-> NilBound, subs |-> <<>>, nots |-> <<>>]

IsMatch(q) == q.kind = "match"

\* C3: the query has one MUST clause that holds the Message match queries, one
\* for each element in list order; it is a disjunction when the first element's
\* OrTerms is set and a conjunction when it is not, whatever OrTerms the later
\* elements have.  No other clause holds a match query.
C3_TermsCombinedByFirstOrTerms ==
    SearchedPosts =>
        LET q == QueryOf(1)
            ps == req.searchParams
            holders == {i \in 1..Len(q.subs) :
                           \E j \in 1..Len(q.subs[i].subs) : IsMatch(q.subs[i].subs[j])}
        IN  /\ Cardinality(holders) = 1
            /\ \A i \in holders :
                 /\ q.subs[i].kind = IF ps[1].OrTerms THEN "disjunction" ELSE "conjunction"
                 /\ q.subs[i].subs = [j \in 1..Len(ps) |-> MatchNode(ps[j].Terms)]
            /\ \A i \in 1..Len(q.subs) : ~IsMatch(q.subs[i])
            /\ \A i \in 1..Len(q.nots) : ~IsMatch(q.nots[i])

C3_Witness ==
    /\ SearchedPosts /\ lastOp.ret = "ok"
    /\ Len(req.searchParams) = 2
    /\ req.searchParams[1].OrTerms
    /\ ~req.searchParams[2].OrTerms
    /\ QueryOf(1).subs[2].kind = "disjunction"

Ranges(qs) == {k \in 1..Len(qs) : qs[k].kind = "range"}

\* C4: when the first element's OnDate is set, the query's only CreateAt range
\* is the closed range of that day, and it stands among the MUST filters; no
\* range stands among the MUST-NOT clauses, whatever the other date fields are.
C4_OnDateSuppressesOtherDates ==
    SearchedPosts /\ req.searchParams[1].OnDate # NoDate =>
        LET q == QueryOf(1)
            day == req.searchParams[1].OnDate
        IN  /\ Len(q.subs) = 3
            /\ Ranges(q.subs) = {}
            /\ Ranges(q.nots) = {}
            /\ q.subs[3].kind = "conjunction"
            /\ Cardinality(Ranges(q.subs[3].subs)) = 1
            /\ \A k \in Ranges(q.subs[3].subs) :
                 /\ q.subs[3].subs[k].field = "CreateAt"
                 /\ q.subs[3].subs[k].min = GetStartOfDayMillis(day)
                 /\ q.subs[3].subs[k].max = GetEndOfDayMillis(day)
            /\ \A k \in 1..Len(q.nots) : Ranges(q.nots[k].subs) = {}

C4_Witness ==
    /\ SearchedPosts /\ lastOp.ret = "ok"
    /\ req.searchParams[1].OnDate # NoDate
    /\ req.searchParams[1].ExcludedAfterDate # NoDate

SearchedUsers == lastOp.name \in {"SearchUsersInChannel", "SearchUsersInTeam"}

\* C5: a user search whose restrictedToChannels is an empty list that is not nil
\* returns empty lists that are not nil, no error, and calls no search.
C5_EmptyRestrictionReturnsEmpty ==
    SearchedUsers /\ ~req.restricted.isNil /\ req.restricted.ids = <<>> =>
        /\ lastOp.ret = "ok"
        /\ lastOp.calls = <<>>
        /\ Len(lastOp.out) = IF lastOp.name = "SearchUsersInChannel" THEN 2 ELSE 1
        /\ \A i \in 1..Len(lastOp.out) : lastOp.out[i] = [isNil |-> FALSE, ids |-> <<>>]

C5_Witness ==
    /\ lastOp.name = "SearchUsersInChannel"
    /\ ~req.restricted.isNil /\ req.restricted.ids = <<>>
    /\ req.term = "Eng" /\ req.teamId = "team1"

Handles == <<postIndex, userIndex, channelIndex>>

\* C6: a Start that follows a successful Start under an active configuration
\* succeeds, opens and creates nothing, and leaves the handles as they were.
C6_StartIsIdempotent ==
    [][(/\ lastOp.name = "Start" /\ lastOp.ret = "ok" /\ IsActiveCfg(cfg)
        /\ lastOp'.name = "Start")
       => (/\ lastOp'.ret = "ok"
           /\ lastOp'.calls = <<>>
           /\ UNCHANGED <<Handles, open>>)]_vars

\* C7: UpdateConfig always installs the new configuration; it stops, installs
\* and starts, in that order, exactly when the configuration it replaces is
\* inactive and the new one is active; otherwise it calls nothing and leaves
\* the handles and what is open unchanged.
C7_UpdateConfigRestartsOnlyFromInactive ==
    [][lastOp'.name = "UpdateConfig" =>
         /\ lastOp'.ret = "ok"
         /\ IF ~IsActiveCfg(cfg) /\ IsActiveCfg(cfg')
            THEN /\ lastOp'.steps = <<"Stop", "SetCfg", "Start">>
                 /\ \A k \in 1..Len(lastOp'.calls) : lastOp'.calls[k].op \in {"Open", "New"}
            ELSE /\ lastOp'.steps = <<"SetCfg">>
                 /\ lastOp'.calls = <<>>
                 /\ UNCHANGED <<Handles, open, nextHandle, disk>>]_vars

C7_Witness ==
    /\ lastOp.name = "UpdateConfig"
    /\ lastOp.steps = <<"Stop", "SetCfg", "Start">>
    /\ {postIndex, userIndex, channelIndex} \subseteq open

\* C8: a Stop of an active engine whose three indexes are open attempts a close
\* on each of them, and returns an error when one of the closes fails.
C8_StopClosesEveryIndex ==
    [][(/\ lastOp'.name = "Stop" /\ IsActiveCfg(cfg)
        /\ {postIndex, userIndex, channelIndex} \subseteq open)
       => (/\ \A n \in IndexNames :
                \E k \in 1..Len(lastOp'.calls) :
                    lastOp'.calls[k].op = "Close" /\ lastOp'.calls[k].index = n
           /\ (\E k \in 1..Len(lastOp'.calls) : ~lastOp'.calls[k].ok)
                  => lastOp'.ret = "err")]_vars

\* C9: every Index, Delete, Search and Close call is made on an open handle.
C9_CallsOnlyOnOpenHandles ==
    \A k \in 1..Len(lastOp.calls) :
        lastOp.calls[k].op \in {"Index", "Delete", "Search", "Close"}
            => lastOp.calls[k].st = "open"

\* the restriction clause: one ChannelsIds term query for each restricted channel
RestrictionClause(ids) ==
    [kind |-> "disjunction", field |-> "", val |-> "", min |-> NilBound, max |-> NilBound,
     subs |-> [i \in 1..Len(ids) |-> TermNode("ChannelsIds", ids[i])], nots |-> <<>>]

\* C10: with a restrictedToChannels list that is not empty, the query of
\* SearchUsersInTeam and SearchUsersInChannel's query for the users not in the
\* channel both have the restriction clause among their MUST clauses.
C10_SameRestrictionClause ==
    SearchedUsers /\ req.restricted.ids # <<>> /\ lastOp.ret = "ok" =>
        LET q == QueryOf(Len(lastOp.calls))
        IN  \E i \in 1..Len(q.subs) : q.subs[i] = RestrictionClause(req.restricted.ids)

====
